---------------------------- MODULE Spec2Model ----------------------------
(***************************************************************************)
(* Model of the build script setup.py of SpargeAttn: toolchain validation, *)
(* architecture-flag resolution, CUDA source discovery, assembly of the    *)
(* two extension targets, the win32 override and the call of setup().      *)
(*                                                                         *)
(* A Python str is a sequence of text chunks.  Text the script looks into  *)
(* (the architecture list, the nvcc banner, file names) is held one        *)
(* character per chunk; a literal the script only passes on ("-O3") is one *)
(* chunk.  A Python list object lives in `heap` and is named by its index. *)
(***************************************************************************)
EXTENDS Integers, Sequences, FiniteSets, TLC

VARIABLES
    pc,            \* position in the module-level script / in the called function
    CUDA_HOME,     \* torch.utils.cpp_extension.CUDA_HOME: "None" or a path
    nvcc_exists,   \* whether CUDA_HOME/bin/nvcc exists
    nvcc_output,   \* stdout of `nvcc --version`, or NvccFailed
    environ,       \* os.environ["TORCH_CUDA_ARCH_LIST"]: Unset or SetTo(str)
    archWritten,   \* how the list in environ was written: [ids, seps]
    fs,            \* the file system: candidate index -> kind
    scanRev,       \* whether the directory scan lists entries in reverse
    platform,      \* sys.platform
    readme,        \* whether README.md can be opened
    heap,          \* the list objects: index -> list value
    extensions,    \* the list `extensions` of CUDAExtension objects
    extras,        \* the dict `extras` ("unbound" before line 105/107)
    ovIdx,         \* index of the next element of the loop of line 100
    stdout,        \* the lines printed so far
    raised,        \* the exception that ended the run, or "none"
    handed,        \* what setup() received, or NotCalled
    cuda_version,  \* the local cuda_version of validate_cuda_installation
    args,          \* the argument of a function called on its own
    ret,           \* its return value
    applied        \* how many times the platform block has run to its end

inputs == <<CUDA_HOME, nvcc_exists, nvcc_output, environ, archWritten, fs,
            scanRev, platform, readme>>

vars == <<pc, CUDA_HOME, nvcc_exists, nvcc_output, environ, archWritten, fs,
          scanRev, platform, readme, heap, extensions, extras, ovIdx, stdout,
          raised, handed, cuda_version, args, ret, applied>>

-----------------------------------------------------------------------------
(* Bounds of the model.                                                    *)

\* longest architecture list written into TORCH_CUDA_ARCH_LIST
MaxArchs == 3
\* longest list of roots given to collect_sources
MaxRoots == 3
\* most entries present in a file system
MaxEntries == 6
\* highest major and minor number of an nvcc release tried
MaxMajor == 13
MaxMinor == 1
\* how often a caller may run the platform block again
MaxApply == 2

-----------------------------------------------------------------------------
(* Python str and list primitives.                                         *)

\* str.replace(old, new) for a one-character old
RECURSIVE Replace(_, _, _)
Replace(s, old, new) ==
    IF s = <<>> THEN <<>>
    ELSE (IF Head(s) = old THEN new ELSE <<Head(s)>>) \o Replace(Tail(s), old, new)

\* str.split(sep) for a one-character sep: always at least one field, empty
\* fields kept
RECURSIVE SplitAcc(_, _, _)
SplitAcc(s, sep, cur) ==
    IF s = <<>> THEN <<cur>>
    ELSE IF Head(s) = sep THEN <<cur>> \o SplitAcc(Tail(s), sep, <<>>)
    ELSE SplitAcc(Tail(s), sep, Append(cur, Head(s)))

Split(s, sep) == SplitAcc(s, sep, <<>>)

\* the characters str.split() with no argument treats as white space
Whitespace == {" ", "\t", "\n"}

\* str.split(): fields between runs of white space, no empty field
RECURSIVE SplitWsAcc(_, _)
SplitWsAcc(s, cur) ==
    IF s = <<>> THEN (IF cur = <<>> THEN <<>> ELSE <<cur>>)
    ELSE IF Head(s) \in Whitespace
         THEN (IF cur = <<>> THEN <<>> ELSE <<cur>>) \o SplitWsAcc(Tail(s), <<>>)
    ELSE SplitWsAcc(Tail(s), Append(cur, Head(s)))

SplitWs(s) == SplitWsAcc(s, <<>>)

\* list.extend over a sequence of lists
RECURSIVE Flatten(_)
Flatten(ss) == IF ss = <<>> THEN <<>> ELSE Head(ss) \o Flatten(Tail(ss))

Range(s) == {s[i] : i \in DOMAIN s}

\* number of elements of s equal to x
RECURSIVE Count(_, _)
Count(s, x) ==
    IF s = <<>> THEN 0 ELSE (IF Head(s) = x THEN 1 ELSE 0) + Count(Tail(s), x)

-----------------------------------------------------------------------------
(* Constants of setup.py.                                                  *)

SUPPORTED_ARCHS ==
    { <<"8", ".", "0">>, <<"8", ".", "6">>, <<"8", ".", "9">>, <<"9", ".", "0">> }

\* Version("12.0"): the release tuple
MIN_CUDA_VERSION == <<12, 0>>

PROJECT_NAME == "spas_sage_attn"

-----------------------------------------------------------------------------
(* get_arch_flags                                                          *)

\* the variable absent from os.environ
Unset == [set |-> FALSE, value |-> <<>>]
SetTo(s) == [set |-> TRUE, value |-> s]

\* os.environ.get("TORCH_CUDA_ARCH_LIST", "")
EnvironGet(env) == IF env.set THEN env.value ELSE <<>>

\* mutant of compute_capabilities: the spaces are not turned into semicolons
SplitOnSemicolonOnly(env) == Split(EnvironGet(env), ";")

\* line 34: .replace(" ", ";").split(";")
compute_capabilities(env) == Split(Replace(EnvironGet(env), " ", <<";">>), ";")

\* line 41: ["-gencode", f"arch=compute_{num},code=sm_{num}"]
GencodePair(num) == << <<"-gencode">>, <<"arch=compute_">> \o num \o <<",code=sm_">> \o num >>

\* line 43
WarningLine(arch) ==
    <<"Warning: Unsupported architecture ">> \o arch \o <<" will be ignored">>

\* mutant of ArchStep: an architecture already resolved is not added again
ArchStepOncePerArch(acc, arch) ==
    IF arch = <<>> THEN acc
    ELSE IF arch \in SUPPORTED_ARCHS
         THEN (IF GencodePair(Replace(arch, ".", <<>>))[2] \in Range(acc.flags)
               THEN acc
               ELSE [acc EXCEPT !.flags = @ \o GencodePair(Replace(arch, ".", <<>>))])
         ELSE [acc EXCEPT !.out = Append(@, WarningLine(arch))]

\* mutant of ArchStep: the empty token is not skipped
ArchStepNoSkip(acc, arch) ==
    IF arch \in SUPPORTED_ARCHS
    THEN [acc EXCEPT !.flags = @ \o GencodePair(Replace(arch, ".", <<>>))]
    ELSE [acc EXCEPT !.out = Append(@, WarningLine(arch))]

\* one pass of the loop body of lines 36-43 over the record [flags, out]
ArchStep(acc, arch) ==
    IF arch = <<>> THEN acc
    ELSE IF arch \in SUPPORTED_ARCHS
         THEN [acc EXCEPT !.flags = @ \o GencodePair(Replace(arch, ".", <<>>))]
         ELSE [acc EXCEPT !.out = Append(@, WarningLine(arch))]

RECURSIVE ArchLoop(_, _)
ArchLoop(acc, tokens) ==
    IF tokens = <<>> THEN acc
    ELSE ArchLoop(ArchStep(acc, Head(tokens)), Tail(tokens))

\* the whole function: [flags |-> the returned list, out |-> the lines printed]
get_arch_flags(env) ==
    ArchLoop([flags |-> <<>>, out |-> <<>>], compute_capabilities(env))

-----------------------------------------------------------------------------
(* validate_cuda_installation                                              *)

DigitChars == <<"0", "1", "2", "3", "4", "5", "6", "7", "8", "9">>

IsDigit(c) == c \in Range(DigitChars)

DigitVal(c) == (CHOOSE i \in DOMAIN DigitChars : DigitChars[i] = c) - 1

\* int() of a non-empty string of digits
RECURSIVE ParseNatAcc(_, _)
ParseNatAcc(s, n) ==
    IF s = <<>> THEN n ELSE ParseNatAcc(Tail(s), 10 * n + DigitVal(Head(s)))

ParseNat(s) == ParseNatAcc(s, 0)

\* packaging.version.parse, for the versions written as [v]N(.N)*: the
\* release tuple.  Every other text is taken as InvalidVersion.
parse(version_str) ==
    LET body == IF version_str # <<>> /\ Head(version_str) \in {"v", "V"}
                THEN Tail(version_str) ELSE version_str
        fields == Split(body, ".")
        wellFormed == \A i \in DOMAIN fields :
                          /\ fields[i] # <<>>
                          /\ \A j \in DOMAIN fields[i] : IsDigit(fields[i][j])
    IN  IF wellFormed
        THEN [ok |-> TRUE, release |-> [i \in DOMAIN fields |-> ParseNat(fields[i])]]
        ELSE [ok |-> FALSE, release |-> <<>>]

\* Version._key drops the trailing zeros of the release
RECURSIVE StripZeros(_)
StripZeros(r) ==
    IF r # <<>> /\ r[Len(r)] = 0 THEN StripZeros(SubSeq(r, 1, Len(r) - 1)) ELSE r

\* Python's order of tuples of ints
RECURSIVE TupleLess(_, _)
TupleLess(a, b) ==
    IF b = <<>> THEN FALSE
    ELSE IF a = <<>> THEN TRUE
    ELSE IF Head(a) # Head(b) THEN Head(a) < Head(b)
    ELSE TupleLess(Tail(a), Tail(b))

\* Version.__lt__ on final releases
VersionLess(a, b) == TupleLess(StripZeros(a), StripZeros(b))

\* subprocess.check_output: the text printed, or the call failed
NvccFailed == [ok |-> FALSE, text |-> <<>>]
NvccPrints(t) == [ok |-> TRUE, text |-> t]
NoVersion == <<>>

\* mutant of BelowMinimum: the minimum itself is refused too
BelowMinimumOrEqual(v) == ~VersionLess(MIN_CUDA_VERSION, v)

\* line 28: the test that raises
BelowMinimum(v) == VersionLess(v, MIN_CUDA_VERSION)

\* lines 15-29: [raised |-> the exception or "none", version |-> cuda_version]
validate_cuda_installation(home, exists, output) ==
    IF home = "None" THEN [raised |-> "RuntimeError", version |-> NoVersion]
    ELSE IF ~exists THEN [raised |-> "RuntimeError", version |-> NoVersion]
    ELSE IF ~output.ok
         THEN [raised |-> "CalledProcessError", version |-> NoVersion]
    ELSE LET words == SplitWs(output.text)
         IN  IF Len(words) < 2 THEN [raised |-> "IndexError", version |-> NoVersion]
             ELSE LET version_str == Split(words[Len(words) - 1], ",")[1]
                      parsed == parse(version_str)
                  IN  IF ~parsed.ok
                      THEN [raised |-> "InvalidVersion", version |-> NoVersion]
                      ELSE IF BelowMinimum(parsed.release)
                           THEN [raised |-> "RuntimeError", version |-> parsed.release]
                           ELSE [raised |-> "none", version |-> parsed.release]

-----------------------------------------------------------------------------
(* The nvcc banners tried.                                                 *)

\* str(n) for 0 <= n <= 99
FormatNat(n) ==
    IF n < 10 THEN <<DigitChars[n + 1]>>
    ELSE <<DigitChars[(n \div 10) + 1], DigitChars[(n % 10) + 1]>>

RECURSIVE FormatRelease(_)
FormatRelease(r) ==
    IF Len(r) = 1 THEN FormatNat(r[1])
    ELSE FormatNat(Head(r)) \o <<".">> \o FormatRelease(Tail(r))

Majors == 11 .. MaxMajor
Minors == 0 .. MaxMinor

Releases ==
    {<<M>> : M \in Majors} \cup {<<M, m>> : M \in Majors, m \in Minors}
        \cup {<<M, 0, m>> : M \in Majors, m \in Minors}

\* the last line of the banner up to CUDA 10: "release 12.0, V12.0.1"
LegacyBanner(r) ==
    <<"r", "e", "l", "e", "a", "s", "e", " ">> \o FormatRelease(r)
        \o <<",", " ", "V">> \o FormatRelease(r) \o <<".", "1", "\n">>

\* the banner of later toolkits, which ends with a build line
BuildLineBanner(r) == LegacyBanner(r) \o <<"B", "u", "i", "l", "d", " ", "c", "u", "d", "a", "\n">>

\* a banner whose version field carries no comma: "12.0 x"
PlainBanner(r) == FormatRelease(r) \o <<" ", "x">>

\* a one-word output
ShortBanner(r) == FormatRelease(r)

\* a banner whose last word but one is the V-prefixed build number
TrailingWordBanner(r) == LegacyBanner(r) \o <<"x">>

Banners ==
    UNION { {LegacyBanner(r), BuildLineBanner(r), PlainBanner(r), ShortBanner(r),
             TrailingWordBanner(r)} : r \in Releases }

-----------------------------------------------------------------------------
(* The file system.  A path is the sequence of its components, a component *)
(* a str held one character per chunk.                                     *)

N_csrc == <<"c", "s", "r", "c">>
N_qattn == <<"q", "a", "t", "t", "n">>
N_fused == <<"f", "u", "s", "e", "d">>
N_sm80 == <<"i", "n", "s", "t", "a", "n", "t", "i", "a", "t", "i", "o", "n", "s", "_", "s", "m", "8", "0">>
N_sm89 == <<"i", "n", "s", "t", "a", "n", "t", "i", "a", "t", "i", "o", "n", "s", "_", "s", "m", "8", "9">>
N_a_cu == <<"a", ".", "c", "u">>
N_hidden_cu == <<".", "h", "i", "d", "d", "e", "n", ".", "c", "u">>
N_notes_txt == <<"n", "o", "t", "e", "s", ".", "t", "x", "t">>
N_b_cu == <<"b", ".", "c", "u">>
N_dotdir == <<".", "c", "a", "c", "h", "e">>
N_c_cu == <<"c", ".", "c", "u">>
N_f_cu == <<"f", ".", "c", "u">>
N_l_cu == <<"l", ".", "c", "u">>
N_h_cuh == <<"h", ".", "c", "u", "h">>

\* the entries a file system may hold below the working directory, with the
\* kinds each may have; the directory csrc itself always exists
Candidates ==
    << [path |-> <<N_csrc, N_qattn>>,                   kind |-> "dir",  alt |-> "dir"],
       [path |-> <<N_csrc, N_qattn, N_a_cu>>,           kind |-> "file", alt |-> "dir"],
       [path |-> <<N_csrc, N_qattn, N_hidden_cu>>,      kind |-> "file", alt |-> "file"],
       [path |-> <<N_csrc, N_qattn, N_notes_txt>>,      kind |-> "file", alt |-> "file"],
       [path |-> <<N_csrc, N_qattn, N_h_cuh>>,          kind |-> "file", alt |-> "file"],
       [path |-> <<N_csrc, N_qattn, N_sm80>>,           kind |-> "dir",  alt |-> "dir"],
       [path |-> <<N_csrc, N_qattn, N_sm80, N_b_cu>>,   kind |-> "file", alt |-> "file"],
       [path |-> <<N_csrc, N_qattn, N_sm89>>,           kind |-> "dir",  alt |-> "dir"],
       [path |-> <<N_csrc, N_qattn, N_dotdir>>,         kind |-> "dir",  alt |-> "dir"],
       [path |-> <<N_csrc, N_qattn, N_dotdir, N_c_cu>>, kind |-> "file", alt |-> "file"],
       [path |-> <<N_csrc, N_fused>>,                   kind |-> "dir",  alt |-> "dir"],
       [path |-> <<N_csrc, N_fused, N_f_cu>>,           kind |-> "file", alt |-> "file"],
       [path |-> <<N_csrc, N_fused, N_l_cu>>,           kind |-> "linkfile", alt |-> "linkdir"] >>

CandIdx == DOMAIN Candidates

Parent(path) == SubSeq(path, 1, Len(path) - 1)
Name(path) == path[Len(path)]

\* the candidate at `path`, or 0
IndexOf(path) ==
    IF \E i \in CandIdx : Candidates[i].path = path
    THEN CHOOSE i \in CandIdx : Candidates[i].path = path
    ELSE 0

KindAt(fsv, path) ==
    IF path = <<N_csrc>> THEN "dir"
    ELSE IF IndexOf(path) = 0 THEN "absent"
    ELSE fsv[IndexOf(path)]

\* every entry present lies in a directory that is present
WellFormedFS(fsv) ==
    \A i \in CandIdx :
        fsv[i] # "absent" => KindAt(fsv, Parent(Candidates[i].path)) = "dir"

PresentSets == {P \in SUBSET CandIdx : Cardinality(P) <= MaxEntries}

\* the candidates with a second kind
AltIdx == {i \in CandIdx : Candidates[i].alt # Candidates[i].kind}

\* the file system with the entries P present, those of D of their second kind
MakeFS(P, D) ==
    [i \in CandIdx |-> IF i \notin P THEN "absent"
                       ELSE IF i \in D THEN Candidates[i].alt
                       ELSE Candidates[i].kind]

FileSystems ==
    {fsv \in UNION { {MakeFS(P, D) : D \in SUBSET (P \cap AltIdx)} : P \in PresentSets } :
        WellFormedFS(fsv)}

-----------------------------------------------------------------------------
(* collect_sources                                                         *)

Reverse(s) == [i \in DOMAIN s |-> s[Len(s) + 1 - i]]

\* the indices in S in rising order
RECURSIVE SortedSeq(_)
SortedSeq(S) ==
    IF S = {} THEN <<>>
    ELSE LET m == CHOOSE x \in S : \A y \in S : x <= y
         IN  <<m>> \o SortedSeq(S \ {m})

\* os.scandir(dir): the paths of the entries of dir, in the order of the scan
ScanDir(fsv, rev, dir) ==
    LET idx == SortedSeq({i \in CandIdx :
                             fsv[i] # "absent" /\ Parent(Candidates[i].path) = dir})
        listed == [k \in DOMAIN idx |-> Candidates[idx[k]].path]
    IN  IF rev THEN Reverse(listed) ELSE listed

\* fnmatch of a file name against the pattern "*.cu"
MatchesCu(name) ==
    /\ Len(name) >= 3
    /\ SubSeq(name, Len(name) - 2, Len(name)) = <<".", "c", "u">>

\* Path.is_file(): follows a symbolic link
is_file(fsv, p) == KindAt(fsv, p) \in {"file", "linkfile"}

\* name.startswith(".")
StartsWithDot(name) == name # <<>> /\ Head(name) = "."

\* Path.rglob("*.cu") from a directory: the matching entries of the directory,
\* then those of each of its real subdirectories (links are not followed)
RECURSIVE RGlobDir(_, _, _)
RGlobDir(fsv, rev, dir) ==
    LET entries == ScanDir(fsv, rev, dir)
        here == SelectSeq(entries, LAMBDA p : MatchesCu(Name(p)))
        subdirs == SelectSeq(entries, LAMBDA p : KindAt(fsv, p) = "dir")
    IN  here \o Flatten([k \in DOMAIN subdirs |-> RGlobDir(fsv, rev, subdirs[k])])

\* Path(src_dir).rglob("*.cu"): nothing when src_dir is no directory
rglob(fsv, rev, root) ==
    IF KindAt(fsv, root) = "dir" THEN RGlobDir(fsv, rev, root) ELSE <<>>

\* str(p): the components joined by "/"
RECURSIVE PathStr(_)
PathStr(p) ==
    IF Len(p) = 1 THEN Head(p) ELSE Head(p) \o <<"/">> \o PathStr(Tail(p))

\* mutant of Kept: a hidden directory on the way hides the file too
KeptNoHiddenPart(fsv, p) ==
    is_file(fsv, p) /\ \A k \in DOMAIN p : ~StartsWithDot(p[k])

\* line 54: the filter of the comprehension
Kept(fsv, p) == is_file(fsv, p) /\ ~StartsWithDot(Name(p))

\* lines 52-55: the list one root adds
SourcesOfRoot(fsv, rev, root) ==
    LET found == SelectSeq(rglob(fsv, rev, root), LAMBDA p : Kept(fsv, p))
    IN  [k \in DOMAIN found |-> PathStr(found[k])]

\* the first occurrences of the elements of s
RECURSIVE Unique(_, _)
Unique(s, seen) ==
    IF s = <<>> THEN <<>>
    ELSE IF Head(s) \in seen THEN Unique(Tail(s), seen)
    ELSE <<Head(s)>> \o Unique(Tail(s), seen \cup {Head(s)})

\* mutant of collect_sources: a file found again is not listed again
collect_sources_unique(fsv, rev, src_dirs) ==
    Unique(Flatten([k \in DOMAIN src_dirs |-> SourcesOfRoot(fsv, rev, src_dirs[k])]), {})

\* lines 47-56
collect_sources(fsv, rev, src_dirs) ==
    Flatten([k \in DOMAIN src_dirs |-> SourcesOfRoot(fsv, rev, src_dirs[k])])

-----------------------------------------------------------------------------
(* The inputs tried.                                                       *)

A80 == <<"8", ".", "0">>
A86 == <<"8", ".", "6">>
A89 == <<"8", ".", "9">>
A90 == <<"9", ".", "0">>
A99 == <<"9", ".", "9">>
ANoDot == <<"8", "0">>

\* the identifiers an operator may write into the list
Idents == {A80, A86, A89, A90, A99, ANoDot}

\* what an operator may write between two identifiers
SepRuns == { <<";">>, <<" ">>, <<"\t">>, <<"\n">>, <<";", " ">> }

\* archWritten is a list of n identifiers and the n-1 separators between them
IsWrittenOfLen(n) ==
    \E i \in [1 .. n -> Idents] :
        \E sp \in [1 .. (IF n = 0 THEN 0 ELSE n - 1) -> SepRuns] :
            archWritten = [ids |-> i, seps |-> sp]

\* archWritten is a list of at most maxLen identifiers
IsWritten(maxLen) == \E n \in 0 .. maxLen : IsWrittenOfLen(n)

\* the text of a written list
RECURSIVE JoinWritten(_, _)
JoinWritten(ids, seps) ==
    IF ids = <<>> THEN <<>>
    ELSE IF Len(ids) = 1 THEN Head(ids)
    ELSE Head(ids) \o Head(seps) \o JoinWritten(Tail(ids), Tail(seps))

\* the values of TORCH_CUDA_ARCH_LIST that hold the written list w
EnvironsOf(w) ==
    {SetTo(JoinWritten(w.ids, w.seps))} \cup (IF w.ids = <<>> THEN {Unset} ELSE {})

R_qattn == <<N_csrc, N_qattn>>
R_sm80 == <<N_csrc, N_qattn, N_sm80>>
R_sm89 == <<N_csrc, N_qattn, N_sm89>>
R_fused == <<N_csrc, N_fused>>

\* the roots a caller of collect_sources may name
RootChoices == {R_qattn, R_sm80, R_sm89, R_fused}

\* the lists of up to MaxRoots roots, no root named twice
RootLists ==
    {rl \in UNION {[1 .. n -> RootChoices] : n \in 0 .. MaxRoots} :
        \A i, j \in DOMAIN rl : i # j => rl[i] # rl[j]}

NotCalled == [called |-> FALSE, ext_modules |-> <<>>, extras_require |-> "unbound"]

\* the program's own state before the first statement
ProgramInit ==
    /\ heap = <<>>
    /\ extensions = <<>>
    /\ extras = "unbound"
    /\ ovIdx = 1
    /\ stdout = <<>>
    /\ raised = "none"
    /\ handed = NotCalled
    /\ cuda_version = NoVersion
    /\ args = <<>>
    /\ ret = <<>>
    /\ applied = 0

program == <<heap, extensions, extras, ovIdx, stdout, raised, handed,
             cuda_version, args, ret, applied>>

-----------------------------------------------------------------------------
(* get_arch_flags called on its own, for every written list.               *)

InitArch ==
    /\ pc = "get_arch_flags"
    /\ IsWritten(MaxArchs)
    /\ environ \in EnvironsOf(archWritten)
    /\ CUDA_HOME = "None" /\ nvcc_exists = FALSE /\ nvcc_output = NvccFailed
    /\ fs = MakeFS({}, {}) /\ scanRev = FALSE
    /\ platform = "linux" /\ readme = FALSE
    /\ ProgramInit

CallGetArchFlags ==
    /\ pc = "get_arch_flags"
    /\ LET r == get_arch_flags(environ)
       IN  /\ ret' = r.flags
           /\ stdout' = stdout \o r.out
    /\ pc' = "returned"
    /\ UNCHANGED <<inputs, heap, extensions, extras, ovIdx, raised, handed,
                   cuda_version, args, applied>>

SpecArch == InitArch /\ [][CallGetArchFlags]_vars

-----------------------------------------------------------------------------
(* collect_sources called on its own, for every file system and root list. *)

InitSources ==
    /\ pc = "collect_sources"
    /\ fs \in FileSystems
    /\ scanRev \in BOOLEAN
    /\ archWritten = [ids |-> <<>>, seps |-> <<>>] /\ environ = Unset
    /\ CUDA_HOME = "None" /\ nvcc_exists = FALSE /\ nvcc_output = NvccFailed
    /\ platform = "linux" /\ readme = FALSE
    /\ ProgramInit

CallCollectSources ==
    /\ pc = "collect_sources"
    /\ \E src_dirs \in RootLists :
          /\ args' = src_dirs
          /\ ret' = collect_sources(fs, scanRev, src_dirs)
    /\ pc' = "returned"
    /\ UNCHANGED <<inputs, heap, extensions, extras, ovIdx, stdout, raised,
                   handed, cuda_version, applied>>

SpecSources == InitSources /\ [][CallCollectSources]_vars

-----------------------------------------------------------------------------
(* validate_cuda_installation called on its own, for every toolchain.      *)

InitValidate ==
    /\ pc = "validate_cuda_installation"
    /\ CUDA_HOME \in {"None", "/usr/local/cuda"}
    /\ nvcc_exists \in BOOLEAN
    /\ nvcc_output \in {NvccFailed} \cup {NvccPrints(b) : b \in Banners}
    /\ archWritten = [ids |-> <<>>, seps |-> <<>>] /\ environ = Unset
    /\ fs = MakeFS({}, {}) /\ scanRev = FALSE
    /\ platform = "linux" /\ readme = FALSE
    /\ ProgramInit

CallValidate ==
    /\ pc = "validate_cuda_installation"
    /\ LET r == validate_cuda_installation(CUDA_HOME, nvcc_exists, nvcc_output)
       IN  /\ raised' = r.raised
           /\ cuda_version' = r.version
           /\ pc' = IF r.raised = "none" THEN "returned" ELSE "raised"
    /\ UNCHANGED <<inputs, heap, extensions, extras, ovIdx, stdout, handed,
                   args, ret, applied>>

SpecValidate == InitValidate /\ [][CallValidate]_vars

-----------------------------------------------------------------------------
(* The module-level script, lines 58-130.                                  *)

Lit(t) == <<t>>

\* lines 73 and 87
CxxArgs == <<Lit("-O3"), Lit("-fopenmp"), Lit("-std=c++17")>>

\* lines 75-78
QattnNvccFixed ==
    <<Lit("-O3"), Lit("-std=c++17"), Lit("--use_fast_math"), Lit("--threads=8")>>

\* lines 89-91
FusedNvccFixed == <<Lit("-O3"), Lit("-std=c++17"), Lit("--use_fast_math")>>

\* lines 102-103
WinNvccArgs == <<Lit("-Xcompiler=/MD"), Lit("-Xcompiler=/wd4819")>>

\* lines 105 and 107: the requirement under the key "triton"
WinExtras == "triton-windows>=3.3.1"
DefaultExtras == "triton>=3.2.0"

\* line 65
PybindSource == Lit("csrc/qattn/pybind.cpp")

\* lines 67-69 and line 85
QattnRoots == <<R_qattn, R_sm80, R_sm89>>
FusedRoots == <<R_fused>>

\* mutant of CUDAExtension: the second target is given the nvcc list object of
\* the first
CUDAExtensionSharedNvcc(h, name, sources, cxx, nvcc) ==
    IF h = <<>>
    THEN [heap |-> <<sources, cxx, nvcc>>,
          ext  |-> [name |-> name, sources |-> 1, cxx |-> 2, nvcc |-> 3]]
    ELSE [heap |-> h \o <<sources, cxx>>,
          ext  |-> [name |-> name, sources |-> Len(h) + 1, cxx |-> Len(h) + 2,
                    nvcc |-> 3]]

\* a CUDAExtension built from three fresh list objects
CUDAExtension(h, name, sources, cxx, nvcc) ==
    [heap |-> h \o <<sources, cxx, nvcc>>,
     ext  |-> [name |-> name, sources |-> Len(h) + 1, cxx |-> Len(h) + 2,
               nvcc |-> Len(h) + 3]]

\* the lists an extension object refers to, read through the heap
SourcesOf(h, e) == h[e.sources]
CxxOf(h, e) == h[e.cxx]
NvccOf(h, e) == h[e.nvcc]

\* what line 59 does with the toolchain of this run
Validated == validate_cuda_installation(CUDA_HOME, nvcc_exists, nvcc_output)

\* mutant of Validate: the exception is swallowed and the script goes on
ValidateAndGoOn ==
    /\ pc = "validate"
    /\ raised' = Validated.raised
    /\ cuda_version' = Validated.version
    /\ pc' = "ext_qattn"
    /\ UNCHANGED <<inputs, heap, extensions, extras, ovIdx, stdout, handed,
                   args, ret, applied>>

\* line 59
Validate ==
    /\ pc = "validate"
    /\ raised' = Validated.raised
    /\ cuda_version' = Validated.version
    /\ pc' = IF Validated.raised = "none" THEN "ext_qattn" ELSE "aborted"
    /\ UNCHANGED <<inputs, heap, extensions, extras, ovIdx, stdout, handed,
                   args, ret, applied>>

\* lines 62-82: the sources are collected, then the flags resolved
AssembleQattn ==
    /\ pc = "ext_qattn"
    /\ LET sources == <<PybindSource>> \o collect_sources(fs, scanRev, QattnRoots)
           resolved == get_arch_flags(environ)
           made == CUDAExtension(heap, PROJECT_NAME \o "._qattn", sources, CxxArgs,
                                 QattnNvccFixed \o resolved.flags)
       IN  /\ heap' = made.heap
           /\ extensions' = Append(extensions, made.ext)
           /\ stdout' = stdout \o resolved.out
    /\ pc' = "ext_fused"
    /\ UNCHANGED <<inputs, extras, ovIdx, raised, handed, cuda_version, args,
                   ret, applied>>

\* lines 83-95
AssembleFused ==
    /\ pc = "ext_fused"
    /\ LET sources == collect_sources(fs, scanRev, FusedRoots)
           resolved == get_arch_flags(environ)
           made == CUDAExtension(heap, PROJECT_NAME \o "._fused", sources, CxxArgs,
                                 FusedNvccFixed \o resolved.flags)
       IN  /\ heap' = made.heap
           /\ extensions' = Append(extensions, made.ext)
           /\ stdout' = stdout \o resolved.out
    /\ pc' = "platform"
    /\ UNCHANGED <<inputs, extras, ovIdx, raised, handed, cuda_version, args,
                   ret, applied>>

\* mutant of OverridingPlatform: every platform but linux is overridden
OverridingNotLinux(p) == p # "linux"

\* line 99
OverridingPlatform(p) == p = "win32"

\* mutant of ExtendNvcc: arguments already in the list are not appended
ExtendNvccOnce(h, e) ==
    [h EXCEPT ![e.nvcc] =
        @ \o SelectSeq(WinNvccArgs, LAMBDA a : a \notin Range(h[e.nvcc]))]

\* lines 101-104: ext.extra_compile_args["nvcc"].extend([...])
ExtendNvcc(h, e) == [h EXCEPT ![e.nvcc] = @ \o WinNvccArgs]

\* lines 100-104: one pass of the loop
OverrideExt ==
    /\ pc = "platform"
    /\ OverridingPlatform(platform)
    /\ ovIdx <= Len(extensions)
    /\ heap' = ExtendNvcc(heap, extensions[ovIdx])
    /\ ovIdx' = ovIdx + 1
    /\ UNCHANGED <<pc, inputs, extensions, extras, stdout, raised, handed,
                   cuda_version, args, ret, applied>>

\* line 105, after the loop
OverrideExtras ==
    /\ pc = "platform"
    /\ OverridingPlatform(platform)
    /\ ovIdx > Len(extensions)
    /\ extras' = WinExtras
    /\ applied' = applied + 1
    /\ pc' = "setup"
    /\ UNCHANGED <<inputs, heap, extensions, ovIdx, stdout, raised, handed,
                   cuda_version, args, ret>>

\* lines 106-107
DefaultPlatform ==
    /\ pc = "platform"
    /\ ~OverridingPlatform(platform)
    /\ extras' = DefaultExtras
    /\ applied' = applied + 1
    /\ pc' = "setup"
    /\ UNCHANGED <<inputs, heap, extensions, ovIdx, stdout, raised, handed,
                   cuda_version, args, ret>>

\* lines 109-130: the arguments are evaluated, open("README.md") among them,
\* then setup() is called
Setup ==
    /\ pc = "setup"
    /\ IF readme
       THEN /\ handed' = [called |-> TRUE, ext_modules |-> extensions,
                          extras_require |-> extras]
            /\ pc' = "done"
            /\ UNCHANGED raised
       ELSE /\ raised' = "FileNotFoundError"
            /\ pc' = "aborted"
            /\ UNCHANGED handed
    /\ UNCHANGED <<inputs, heap, extensions, extras, ovIdx, stdout,
                   cuda_version, args, ret, applied>>

\* the toolchains a build is tried with
BuildToolchains ==
    {[home |-> "None", exists |-> FALSE, output |-> NvccFailed],
     [home |-> "/usr/local/cuda", exists |-> FALSE, output |-> NvccFailed],
     [home |-> "/usr/local/cuda", exists |-> TRUE, output |-> NvccFailed]}
    \cup {[home |-> "/usr/local/cuda", exists |-> TRUE, output |-> NvccPrints(b)] :
            b \in {LegacyBanner(<<11, 1>>), LegacyBanner(<<12, 0>>),
                   LegacyBanner(<<12, 1>>), BuildLineBanner(<<12, 0>>),
                   ShortBanner(<<12, 0>>)}}

\* the architecture lists a build is tried with
BuildWritten ==
    \/ IsWritten(1)
    \/ archWritten \in {[ids |-> <<A80, A86, A99>>, seps |-> << <<";">>, <<";">> >>],
                        [ids |-> <<A80, A80>>, seps |-> << <<" ">> >>],
                        [ids |-> <<A89, A90>>, seps |-> << <<"\t">> >>]}

\* the file systems a build is tried with
BuildFileSystems ==
    {MakeFS({}, {}),
     MakeFS({1, 2, 6, 7, 11, 12}, {}),
     MakeFS({1, 2, 3, 5, 11, 13}, {2}),
     MakeFS({1, 4, 8, 9, 10}, {}),
     MakeFS({11, 12, 13}, {13})}

Init ==
    /\ pc = "validate"
    /\ \E t \in BuildToolchains :
          /\ CUDA_HOME = t.home
          /\ nvcc_exists = t.exists
          /\ nvcc_output = t.output
    /\ BuildWritten
    /\ environ \in EnvironsOf(archWritten)
    /\ fs \in BuildFileSystems
    /\ scanRev = FALSE
    /\ platform \in {"win32", "linux", "darwin"}
    /\ readme \in BOOLEAN
    /\ ProgramInit

Next ==
    \/ Validate
    \/ AssembleQattn
    \/ AssembleFused
    \/ OverrideExt
    \/ OverrideExtras
    \/ DefaultPlatform
    \/ Setup

Spec == Init /\ [][Next]_vars

\* a caller runs the platform block, lines 98-107, once more
Reapply ==
    /\ pc = "setup"
    /\ applied < MaxApply
    /\ pc' = "platform"
    /\ ovIdx' = 1
    /\ UNCHANGED <<inputs, heap, extensions, extras, stdout, raised, handed,
                   cuda_version, args, ret, applied>>

NextReapply == Next \/ Reapply

SpecReapply == Init /\ [][NextReapply]_vars

\* a whole build for every written list shorter than MaxArchs, on one good
\* and one outdated toolchain
InitResolve ==
    /\ pc = "validate"
    /\ CUDA_HOME = "/usr/local/cuda"
    /\ nvcc_exists = TRUE
    /\ nvcc_output \in {NvccPrints(LegacyBanner(<<12, 0>>)),
                        NvccPrints(LegacyBanner(<<11, 1>>))}
    /\ IsWritten(MaxArchs - 1)
    /\ environ \in EnvironsOf(archWritten)
    /\ fs = MakeFS({1, 2, 11, 12}, {})
    /\ scanRev = FALSE
    /\ platform \in {"win32", "linux"}
    /\ readme \in BOOLEAN
    /\ ProgramInit

SpecResolve == InitResolve /\ [][Next]_vars

-----------------------------------------------------------------------------
(* What the properties below speak of.                                     *)

\* the characters that end a token of the architecture list
ListSeparators == {" ", ";"}

\* the maximal runs of s free of separators, as pairs <<first, last>>
TokenSpans(s) ==
    {sp \in (DOMAIN s) \X (DOMAIN s) :
        /\ sp[1] <= sp[2]
        /\ \A k \in sp[1] .. sp[2] : s[k] \notin ListSeparators
        /\ sp[1] = 1 \/ s[sp[1] - 1] \in ListSeparators
        /\ sp[2] = Len(s) \/ s[sp[2] + 1] \in ListSeparators}

\* the non-empty tokens of s, first to last
RECURSIVE SpansInOrder(_, _)
SpansInOrder(s, spans) ==
    IF spans = {} THEN <<>>
    ELSE LET first == CHOOSE sp \in spans : \A o \in spans : sp[1] <= o[1]
         IN  <<SubSeq(s, first[1], first[2])>> \o SpansInOrder(s, spans \ {first})

TokensOf(env) ==
    LET s == IF env.set THEN env.value ELSE <<>>
    IN  SpansInOrder(s, TokenSpans(s))

\* the flag pair of a supported identifier M.m
PairOf(t) ==
    << <<"-gencode">>, <<"arch=compute_", t[1], t[3], ",code=sm_", t[1], t[3]>> >>

\* one pair per supported token, in the order of the tokens
RECURSIVE ExpectedFlags(_)
ExpectedFlags(tokens) ==
    IF tokens = <<>> THEN <<>>
    ELSE (IF Head(tokens) \in {A80, A86, A89, A90} THEN PairOf(Head(tokens)) ELSE <<>>)
             \o ExpectedFlags(Tail(tokens))

UnsupportedTokens(env) ==
    SelectSeq(TokensOf(env), LAMBDA t : t \notin {A80, A86, A89, A90})

\* whether text t occurs in line
Occurs(t, line) ==
    \E i \in 1 .. (Len(line) - Len(t) + 1) : SubSeq(line, i, i + Len(t) - 1) = t

\* the k-th line warns of the k-th unsupported token, and there is no other line
WarnsOnceEach(lines, env) ==
    LET bad == UnsupportedTokens(env)
    IN  /\ Len(lines) = Len(bad)
        /\ \A k \in DOMAIN bad : Occurs(bad[k], lines[k])

\* a toolchain whose root is known, whose nvcc exists and reports, in the
\* legacy banner, a release of major number 12 or more
GoodToolchain ==
    /\ CUDA_HOME # "None"
    /\ nvcc_exists
    /\ \E r \in Releases : r[1] >= 12 /\ nvcc_output = NvccPrints(LegacyBanner(r))

\* the .cu files a single root should yield: present, below the root, a file
\* (or a link to one), named *.cu, the name not starting with "."
IsBelow(path, root) ==
    Len(path) > Len(root) /\ SubSeq(path, 1, Len(root)) = root

QualifiedUnder(fsv, root) ==
    {Candidates[i].path : i \in
        {j \in CandIdx :
            /\ fsv[j] \in {"file", "linkfile"}
            /\ IsBelow(Candidates[j].path, root)
            /\ LET n == Name(Candidates[j].path)
               IN  /\ Len(n) >= 3
                   /\ n[Len(n) - 2] = "." /\ n[Len(n) - 1] = "c" /\ n[Len(n)] = "u"
                   /\ n[1] # "."}}

TextOf(path) == PathStr(path)

-----------------------------------------------------------------------------
(* Properties.                                                             *)

\* C1: with the toolchain root known, nvcc present and a banner whose version
\* field reads release v, validate_cuda_installation raises a RuntimeError when
\* v is below 12.0 (its major number is under 12) and returns without raising
\* when v is 12.0 or more, 12.0 itself included.
C1_MinimumVersionGate ==
    pc # "validate_cuda_installation" =>
        \A r \in Releases :
            ( /\ CUDA_HOME # "None"
              /\ nvcc_exists
              /\ nvcc_output \in {NvccPrints(LegacyBanner(r)), NvccPrints(PlainBanner(r))} )
            => /\ cuda_version = r
               /\ r[1] < 12 => (pc = "raised" /\ raised = "RuntimeError")
               /\ r[1] >= 12 => (pc = "returned" /\ raised = "none")

\* the boundary: release 12.0 was reported and the validation returned
C1_Witness ==
    /\ pc = "returned"
    /\ raised = "none"
    /\ nvcc_output = NvccPrints(LegacyBanner(<<12, 0>>))
    /\ cuda_version = <<12, 0>>

\* the steps of the script, in the only order they may follow one another
PhaseOrder ==
    {<<"validate", "ext_qattn">>, <<"validate", "aborted">>,
     <<"ext_qattn", "ext_fused">>, <<"ext_fused", "platform">>,
     <<"platform", "setup">>, <<"setup", "done">>, <<"setup", "aborted">>}

C2_StateOrder ==
    \* an exception ends the run, and setup() is then never called
    /\ raised # "none" <=> pc = "aborted"
    /\ raised # "none" => ~handed.called
    \* setup() is called last, with both targets and the extras decided
    /\ handed.called <=>  pc = "done"
    /\ handed.called => Len(extensions) = 2 /\ extras # "unbound" /\ applied = 1
    \* a configuration error keeps the targets from the build driver
    /\ (~GoodToolchain \/ ~readme) => ~handed.called
    \* nothing is resolved, discovered or assembled before validation passed
    /\ (pc = "validate" \/ ~GoodToolchain) =>
           heap = <<>> /\ extensions = <<>> /\ stdout = <<>> /\ extras = "unbound"
    \* the override and the extras come after both targets are assembled
    /\ (extras # "unbound" \/ ovIdx > 1) => Len(extensions) = 2
    /\ pc = "ext_fused" => Len(extensions) = 1
    /\ pc \in {"platform", "setup", "done"} => Len(extensions) = 2

C2_StepOrder ==
    /\ pc \notin {"aborted", "done"}
    /\ pc' # pc => <<pc, pc'>> \in PhaseOrder
    /\ heap' # heap => pc \in {"ext_qattn", "ext_fused", "platform"}
    /\ extensions' # extensions => pc \in {"ext_qattn", "ext_fused"}

\* C2: the phases run in the order validation, assembly, platform override,
\* emission; a configuration error ends the run where it occurs and setup() is
\* never called; when validation fails nothing has been resolved, discovered
\* or assembled.
C2_PhasesInOrder == [](C2_StateOrder) /\ [][C2_StepOrder]_vars

\* a run that went through every phase and handed the targets over
C2_Witness == pc = "done" /\ handed.called /\ Len(handed.ext_modules) = 2

\* C3: get_arch_flags does not raise, and returns one flag pair per non-empty
\* token of TORCH_CUDA_ARCH_LIST that is a supported architecture, in the order
\* of the tokens, repeated tokens repeated, nothing for the other tokens, and
\* the empty list for an unset or empty variable.
C3_OnePairPerSupportedToken ==
    pc = "returned" =>
        /\ raised = "none"
        /\ ret = ExpectedFlags(TokensOf(environ))
        /\ (~environ.set \/ environ.value = <<>>) => ret = <<>>

\* 8.0 written twice and 9.9 once: two pairs for 8.0, none for 9.9
C3_Witness ==
    /\ pc = "returned"
    /\ archWritten = [ids |-> <<A80, A99, A80>>, seps |-> << <<";">>, <<";">> >>]
    /\ ret = PairOf(A80) \o PairOf(A80)

\* the separators made of spaces and semicolons only
SpaceOrSemicolon(seps) ==
    \A i \in DOMAIN seps : \A j \in DOMAIN seps[i] : seps[i][j] \in {" ", ";"}

JoinedBySemicolons(ids) ==
    SetTo(JoinWritten(ids, [i \in 1 .. (IF ids = <<>> THEN 0 ELSE Len(ids) - 1) |-> <<";">>]))

NonEmpty(tokens) == SelectSeq(tokens, LAMBDA t : t # <<>>)

\* C4 as stated, in what it says of the result: whatever white space (space,
\* tab, newline) or semicolons join the identifiers, the flags are those of
\* the identifiers joined by single semicolons.
C4_AnyWhitespaceSeparates ==
    pc = "returned" =>
        ret = get_arch_flags(JoinedBySemicolons(archWritten.ids)).flags

\* C4 (amended): identifiers joined by spaces, semicolons or runs of the two
\* give the tokens and the flags of the identifiers joined by single
\* semicolons; the empty tokens between adjacent separators are discarded.
C4_SpaceAndSemicolonSeparate ==
    (pc = "returned" /\ SpaceOrSemicolon(archWritten.seps)) =>
        /\ NonEmpty(compute_capabilities(environ)) = archWritten.ids
        /\ ret = get_arch_flags(JoinedBySemicolons(archWritten.ids)).flags

\* three identifiers joined by a space and by a semicolon followed by a space
C4_Witness ==
    /\ pc = "returned"
    /\ archWritten = [ids |-> <<A80, A86, A90>>, seps |-> << <<" ">>, <<";", " ">> >>]
    /\ ret = PairOf(A80) \o PairOf(A86) \o PairOf(A90)

\* the nvcc list a target is assembled with
AssembledNvcc(i) ==
    (IF i = 1 THEN QattnNvccFixed ELSE FusedNvccFixed) \o ExpectedFlags(TokensOf(environ))

C5_State ==
    /\ pc = "ext_fused" => WarnsOnceEach(stdout, environ)
    /\ pc \in {"platform", "setup", "done"} =>
           \E n \in 0 .. Len(stdout) :
               /\ Len(stdout) = 2 * n
               /\ WarnsOnceEach(SubSeq(stdout, 1, n), environ)
               /\ WarnsOnceEach(SubSeq(stdout, n + 1, 2 * n), environ)
    /\ pc = "aborted" => (~GoodToolchain \/ ~readme)
    /\ pc = "done" =>
           /\ handed.called
           /\ \A i \in DOMAIN handed.ext_modules :
                 SubSeq(NvccOf(heap, handed.ext_modules[i]), 1, Len(AssembledNvcc(i)))
                     = AssembledNvcc(i)

\* the two steps that resolve the architectures go on to the next step
C5_Step ==
    pc \in {"ext_qattn", "ext_fused"} =>
        /\ raised' = "none"
        /\ pc' = IF pc = "ext_qattn" THEN "ext_fused" ELSE "platform"
        /\ Len(extensions') = Len(extensions) + 1

\* C5: each resolution prints one warning per non-empty unsupported token,
\* naming it, and none for a supported or an empty token; there is one
\* resolution per target.  An unsupported token does not end the build: the
\* resolving steps never raise, the run only aborts on a configuration error,
\* and setup() receives the flags of the architectures that remain, be they
\* none.
C5_WarnAndContinue == [](C5_State) /\ [][C5_Step]_vars

\* only 9.9 was asked for: warned of, no architecture left, setup() called
C5_Witness ==
    /\ pc = "done"
    /\ handed.called
    /\ archWritten.ids = <<A99>>
    /\ Len(stdout) = 2
    /\ NvccOf(heap, handed.ext_modules[2]) = FusedNvccFixed

\* C6: for one root that is a directory, collect_sources returns, each once,
\* exactly the entries below the root at any depth that are files, are named
\* *.cu and whose own name does not start with "."; a directory, a file of
\* another extension or a hidden-named file is never returned, and a hidden
\* enclosing directory does not exclude a file.
C6_SingleRootExactSet ==
    (pc = "returned" /\ Len(args) = 1 /\ KindAt(fs, args[1]) = "dir") =>
        /\ Range(ret) = {TextOf(p) : p \in QualifiedUnder(fs, args[1])}
        /\ Len(ret) = Cardinality(QualifiedUnder(fs, args[1]))

\* the tree a.cu, .hidden.cu, notes.txt, instantiations_sm80/b.cu and
\* .cache/c.cu below csrc/qattn: a.cu, b.cu and c.cu are returned
C6_Witness ==
    /\ pc = "returned"
    /\ args = <<R_qattn>>
    /\ fs = MakeFS({1, 2, 3, 4, 6, 7}, {})
    /\ Range(ret) = {TextOf(<<N_csrc, N_qattn, N_a_cu>>),
                     TextOf(<<N_csrc, N_qattn, N_sm80, N_b_cu>>)}

\* the file below a hidden directory is returned
C6_HiddenDirWitness ==
    /\ pc = "returned"
    /\ args = <<R_qattn>>
    /\ TextOf(<<N_csrc, N_qattn, N_dotdir, N_c_cu>>) \in Range(ret)

\* how many of the roots have path p among the files they should yield
RECURSIVE RootsYielding(_, _, _)
RootsYielding(fsv, roots, p) ==
    IF roots = <<>> THEN 0
    ELSE (IF KindAt(fsv, Head(roots)) = "dir" /\ p \in QualifiedUnder(fsv, Head(roots))
          THEN 1 ELSE 0) + RootsYielding(fsv, Tail(roots), p)

\* C7: for a list of roots the result is the results of the single roots, one
\* after the other in the order given; a root that is no directory adds
\* nothing and takes nothing away, and a file below k of the roots is
\* listed k times.
C7_RootByRootConcatenation ==
    pc = "returned" =>
        /\ raised = "none"
        /\ ret = Flatten([k \in DOMAIN args |-> collect_sources(fs, scanRev, <<args[k]>>)])
        /\ \A k \in DOMAIN args :
               KindAt(fs, args[k]) # "dir" => collect_sources(fs, scanRev, <<args[k]>>) = <<>>
        /\ \A i \in CandIdx :
               Count(ret, TextOf(Candidates[i].path))
                   = RootsYielding(fs, args, Candidates[i].path)

\* a missing root, then two nested roots: b.cu is listed twice
C7_Witness ==
    /\ pc = "returned"
    /\ args = <<R_fused, R_qattn, R_sm80>>
    /\ KindAt(fs, R_fused) = "absent"
    /\ Count(ret, TextOf(<<N_csrc, N_qattn, N_sm80, N_b_cu>>)) = 2
    /\ Len(ret) = 3

\* the list objects of the extensions assembled so far
ListRefs == UNION {{extensions[i].sources, extensions[i].cxx, extensions[i].nvcc} :
                      i \in DOMAIN extensions}

C8_State ==
    \* no list object belongs to two targets or serves twice in one
    /\ Cardinality(ListRefs) = 3 * Len(extensions)
    \* no source is in both lists
    /\ \A i, j \in DOMAIN extensions :
           i # j => Range(SourcesOf(heap, extensions[i]))
                        \cap Range(SourcesOf(heap, extensions[j])) = {}

C8_Frame ==
    \A i, j \in DOMAIN extensions :
        (i # j /\ NvccOf(heap', extensions[i]) # NvccOf(heap, extensions[i])) =>
            /\ SourcesOf(heap', extensions[j]) = SourcesOf(heap, extensions[j])
            /\ CxxOf(heap', extensions[j]) = CxxOf(heap, extensions[j])
            /\ NvccOf(heap', extensions[j]) = NvccOf(heap, extensions[j])

\* C8: the two targets have disjoint source lists and own their lists: a step
\* that changes the device-compiler list of one target leaves the source list
\* and both argument lists of the other as they were.
C8_TargetsIndependent == [](C8_State) /\ [][C8_Frame]_vars

\* _qattn has received the win32 arguments and _fused not yet
C8_Witness ==
    /\ pc = "platform"
    /\ ovIdx = 2
    /\ SourcesOf(heap, extensions[1]) # <<PybindSource>>
    /\ SourcesOf(heap, extensions[2]) # <<>>
    /\ NvccOf(heap, extensions[1]) = AssembledNvcc(1) \o WinNvccArgs
    /\ NvccOf(heap, extensions[2]) = AssembledNvcc(2)

\* C9: when setup() is called the platform block has run once: on win32 each
\* target's nvcc list is its assembled list followed by one "-Xcompiler=/MD"
\* and one "-Xcompiler=/wd4819" and the triton extra is triton-windows; on any
\* other platform the nvcc lists are the assembled ones and the extra is
\* triton.  The cxx lists and the source lists are the assembled ones.
C9_OverrideOnceAtEmission ==
    handed.called =>
        /\ applied = 1
        /\ Len(handed.ext_modules) = 2
        /\ \A i \in DOMAIN handed.ext_modules :
              LET e == handed.ext_modules[i]
              IN  /\ CxxOf(heap, e) = CxxArgs
                  /\ SourcesOf(heap, e) =
                         IF i = 1
                         THEN <<PybindSource>> \o collect_sources(fs, scanRev, QattnRoots)
                         ELSE collect_sources(fs, scanRev, FusedRoots)
                  /\ IF platform = "win32"
                     THEN /\ NvccOf(heap, e) = AssembledNvcc(i)
                                \o << <<"-Xcompiler=/MD">>, <<"-Xcompiler=/wd4819">> >>
                          /\ Count(NvccOf(heap, e), <<"-Xcompiler=/MD">>) = 1
                          /\ Count(NvccOf(heap, e), <<"-Xcompiler=/wd4819">>) = 1
                     ELSE NvccOf(heap, e) = AssembledNvcc(i)
        /\ handed.extras_require =
               IF platform = "win32" THEN "triton-windows>=3.3.1" ELSE "triton>=3.2.0"

\* a win32 build with architecture flags, handed to setup()
C9_Witness ==
    /\ handed.called
    /\ platform = "win32"
    /\ archWritten.ids = <<A80, A86, A99>>
    /\ Len(NvccOf(heap, handed.ext_modules[1])) = 10

\* n copies of s, one after the other
RECURSIVE Repeated(_, _)
Repeated(s, n) == IF n = 0 THEN <<>> ELSE s \o Repeated(s, n - 1)

\* C10: on win32 every run of the platform block appends the override
\* arguments again, whatever the lists already hold: after k runs each nvcc
\* list is the assembled list followed by k copies of the two arguments, so
\* after a second run each argument is there twice and the list differs from
\* the list after one run.
C10_OverrideNotIdempotent ==
    (platform = "win32" /\ pc = "setup") =>
        /\ applied >= 1
        /\ \A i \in DOMAIN extensions :
              LET nvcc == NvccOf(heap, extensions[i])
              IN  /\ nvcc = AssembledNvcc(i) \o Repeated(WinNvccArgs, applied)
                  /\ \A k \in DOMAIN WinNvccArgs : Count(nvcc, WinNvccArgs[k]) = applied
                  /\ applied >= 2 => nvcc # AssembledNvcc(i) \o WinNvccArgs

\* the block has run twice on win32
C10_Witness ==
    /\ platform = "win32"
    /\ pc = "setup"
    /\ applied = 2
    /\ Count(NvccOf(heap, extensions[1]), <<"-Xcompiler=/MD">>) = 2
    /\ Count(NvccOf(heap, extensions[2]), <<"-Xcompiler=/wd4819">>) = 2

=============================================================================
